---- MODULE Spec2Model ----
(***************************************************************************)
(* A model of the Clubhouse-Podcast-Automation pipeline:                   *)
(*   src/src/core/downloader.py   validate_url, sanitize_filename,         *)
(*                                download_clubhouse_video                 *)
(*   src/src/core/transcriber.py  transcribe_audio, split_audio,           *)
(*                                transcribe_audio_chunked                 *)
(*   src/src/core/summarizer.py   generate_descriptions, _parse_response   *)
(*   src/src/core/audio_extractor.py  check_ffmpeg, extract_audio          *)
(*   src/src/cli.py               transcribe, summarize, process           *)
(* Each component has its own specification (SpecSanitize, SpecDownload,   *)
(* SpecAI, SpecCli, SpecExtract, SpecParse, SpecTags); the variables of the *)
(* other components stay idle.                                             *)
(***************************************************************************)
EXTENDS Integers, Sequences, FiniteSets, TLC

VARIABLES
    \* ---- sanitize_filename
    san_pc,         \* "idle" | "call" | "done"
    filename,       \* the argument, a run-length encoded string
    sanitized,      \* the value returned
    \* ---- download_clubhouse_video
    dl_pc,          \* "idle" | "validate" | "prepare" | "request" | "open" | "stream" | "verify" | "done"
    url,            \* the url argument, by its components
    mkdirCalls,     \* number of output_dir.mkdir calls made
    httpCalls,      \* number of requests.get calls issued
    fileExists,     \* a file exists at output_path
    fileSize,       \* its size, in chunks written
    bodyLeft,       \* chunks of the response body not yet yielded by iter_content
    bodyEmpty,      \* the response body had zero bytes
    dl_raised,      \* "none" or the exception the call ended with
    \* ---- transcribe_audio, transcribe_audio_chunked, generate_descriptions
    op,             \* the operation called, or "idle"
    ai_pc,          \* position in it; "returned" and "raised" are final
    api_key,        \* the api_key argument: "none" (None), "" or "key"
    envKey,         \* GEMINI_API_KEY: "unset", "" or "key"
    audioKind,      \* what audio_path names: "missing", "dir" or "file"
    duration,       \* the duration ffprobe reports for the audio, in seconds
    chunk_duration_minutes,
    delay_between_chunks,
    include_timestamps,
    transcript,     \* generate_descriptions' transcript: "", "blank" or "text"
    episode_title,  \* generate_descriptions' title: "", "blank" or "text"
    trace,          \* the external calls, sleeps and transcribe_audio calls so far
    chunks,         \* split_audio's chunks, each by its start offset
    start_time,     \* split_audio's start_time
    idx,            \* the chunk loop's i
    transcripts,    \* the chunk loop's transcripts
    num_chunks,     \* the number of chunks announced before splitting
    tempDir,        \* the temporary directory: "none", "exists" or "removed"
    ai_raised,      \* "none" or the type of the exception raised
    ai_kind,        \* which error of that type
    ai_result,      \* the value returned, a text
    served,         \* what the service did in the call made on the original input
    \* ---- the commands of cli.py
    cmd,            \* the command run, or "idle"
    cli_pc,         \* position in it; "exited" is final
    environKey,     \* GEMINI_API_KEY as the command reads it: "unset", "" or "key"
    chunkedFlag,    \* transcribe --chunked
    inputKind,      \* what --input names: "file" or "dir"
    outputOpt,      \* --output is given
    configLocal,    \* the config's "local" section: "full", "no_output_dir" or "absent"
    stages,         \* the stage functions called so far, each with how it ended
    written,        \* the files the command has written
    exit_code,      \* -1 while running, then the exit status
    diagnostic,     \* what is printed to the error stream: its prefix, or "traceback"
    raisedIn,       \* the numbered step in which the exception was raised, or 0
    raisedExc,      \* the type of that exception
    \* ---- extract_audio
    ex_pc,          \* "idle" | "validate" | "probe" | "prepare" | "check_output" | "run" | "done"
    videoKind,      \* what video_path names: "missing", "dir" or "file"
    overwrite,      \* the overwrite argument
    output_path,    \* the output_path argument: "none" (None) or "given"
    outputBefore,   \* the file at output_path when the call starts: "absent" or "old"
    outputFile,     \* the file at output_path now: "absent", "old" or "new"
    outDirExists,   \* output_path.parent exists
    dirsCreated,    \* directories the call has created
    probeCalls,     \* runs of the encoder with -version
    probeStatus,    \* how the last of them ended, or "none"
    runCalls,       \* runs of the extraction command
    runStatus,      \* how the extraction command ended, or "none"
    ex_raised,      \* "none" or the type of the exception raised
    ex_kind,        \* which error of that type
    ex_result,      \* "none" or "output_path", the value returned
    \* ---- _parse_response
    pr_pc,          \* "idle" | "call" | "done"
    response_text,  \* the reply, a sequence of lines
    fallback_title, \* "" or "fallback"
    include_tags,   \* the include_tags argument
    parsed,         \* the dictionary returned, a value for every field
    \* ---- _parse_tags
    tg_pc,          \* "idle" | "call" | "done"
    tags_text,      \* the argument, a sequence of characters
    tag_list        \* the list returned

sanVars == <<san_pc, filename, sanitized>>
dlVars == <<dl_pc, url, mkdirCalls, httpCalls, fileExists, fileSize, bodyLeft, bodyEmpty, dl_raised>>
aiVars ==
    <<op, ai_pc, api_key, envKey, audioKind, duration, chunk_duration_minutes,
      delay_between_chunks, include_timestamps, transcript, episode_title, trace, chunks,
      start_time, idx, transcripts, num_chunks, tempDir, ai_raised, ai_kind, ai_result, served>>
cliVars ==
    <<cmd, cli_pc, environKey, chunkedFlag, inputKind, outputOpt, configLocal, stages, written,
      exit_code, diagnostic, raisedIn, raisedExc>>
exVars ==
    <<ex_pc, videoKind, overwrite, output_path, outputBefore, outputFile, outDirExists, dirsCreated,
      probeCalls, probeStatus, runCalls, runStatus, ex_raised, ex_kind, ex_result>>
prVars == <<pr_pc, response_text, fallback_title, include_tags, parsed>>
tgVars == <<tg_pc, tags_text, tag_list>>
vars == <<sanVars, dlVars, aiVars, cliVars, exVars, prVars, tgVars>>

(***************************************************************************)
(* Strings whose length matters are run-length encoded: a string is a      *)
(* sequence of runs [c |-> character, n |-> repetitions], n >= 1.          *)
(***************************************************************************)
MaxFilenameLen == 200

MaxRuns == 3

InvalidChars == {"<", ">", ":", "\"", "/", "\\", "|", "?", "*"}

StripChars == {".", " "}

InputChars == {"a", ".", " ", "/", "*"}

RunLens == {1, MaxFilenameLen - 1, MaxFilenameLen + 1}

Runs == [c : InputChars, n : RunLens]

Strings == UNION {[1..k -> Runs] : k \in 0..MaxRuns}

RECURSIVE StrLen(_)
StrLen(s) == IF s = <<>> THEN 0 ELSE Head(s).n + StrLen(Tail(s))

\* str.replace(char, "_") for every char of invalid_chars
ReplaceInvalid(s) ==
    [i \in DOMAIN s |-> IF s[i].c \in InvalidChars THEN [c |-> "_", n |-> s[i].n] ELSE s[i]]

RECURSIVE LStrip(_)
LStrip(s) ==
    IF s = <<>> THEN <<>>
    ELSE IF Head(s).c \in StripChars THEN LStrip(Tail(s)) ELSE s

RECURSIVE RStrip(_)
RStrip(s) ==
    IF s = <<>> THEN <<>>
    ELSE IF s[Len(s)].c \in StripChars THEN RStrip(SubSeq(s, 1, Len(s) - 1)) ELSE s

\* str.strip(". ")
Strip(s) == RStrip(LStrip(s))

\* s[:k]
RECURSIVE Prefix(_, _)
Prefix(s, k) ==
    IF k <= 0 \/ s = <<>> THEN <<>>
    ELSE IF Head(s).n <= k THEN <<Head(s)>> \o Prefix(Tail(s), k - Head(s).n)
    ELSE <<[c |-> Head(s).c, n |-> k]>>

Word(w) == [i \in DOMAIN w |-> [c |-> w[i], n |-> 1]]

DefaultName == Word(<<"d", "o", "w", "n", "l", "o", "a", "d">>)

\* a variant that returns the name as it is left, the empty one included
sanitize_filename_no_default(name) ==
    LET replaced == ReplaceInvalid(name)
        stripped == Strip(replaced)
    IN  IF StrLen(stripped) > MaxFilenameLen THEN Prefix(stripped, MaxFilenameLen) ELSE stripped

sanitize_filename(name) ==
    LET replaced == ReplaceInvalid(name)
        stripped == Strip(replaced)
        limited == IF StrLen(stripped) > MaxFilenameLen
                   THEN Prefix(stripped, MaxFilenameLen) ELSE stripped
    IN  IF limited = <<>> THEN DefaultName ELSE limited

SanIdle ==
    /\ san_pc = "idle"
    /\ filename = <<>>
    /\ sanitized = <<>>

SanInit ==
    /\ san_pc = "call"
    /\ filename \in Strings
    /\ sanitized = <<>>

SanitizeCall ==
    /\ san_pc = "call"
    /\ sanitized' = sanitize_filename(filename)
    /\ san_pc' = "done"
    /\ UNCHANGED filename
    /\ UNCHANGED <<dlVars, aiVars, cliVars, exVars, prVars, tgVars>>

(***************************************************************************)
(* download_clubhouse_video.  A URL is given by its components; the string *)
(* is scheme ":" "//" userinfo "@" host ":" port path, each part present   *)
(* when non-empty (slashes says whether "//" is there).  The empty string  *)
(* is the URL with every component empty.  The Content-Length header, when *)
(* present, is a decimal number.                                           *)
(***************************************************************************)
MaxBodyChunks == 2

Urls ==
    [scheme : {"", "http", "https", "HTTP", "ftp"}, slashes : BOOLEAN,
     userinfo : {"", "user"}, host : {"", "host"}, port : {"", "80"},
     path : {"", "/rec"}]

EmptyUrl ==
    [scheme |-> "", slashes |-> FALSE, userinfo |-> "", host |-> "", port |-> "", path |-> ""]

\* urlparse(url).scheme: the text before the first ":", lower-cased
UrlScheme(u) == IF u.scheme = "HTTP" THEN "http" ELSE u.scheme

\* urlparse(url).netloc: the text between "//" and the next "/", as its parts
UrlNetloc(u) ==
    IF ~u.slashes THEN <<>>
    ELSE (IF u.userinfo = "" THEN <<>> ELSE <<u.userinfo, "@">>)
         \o (IF u.host = "" THEN <<>> ELSE <<u.host>>)
         \o (IF u.port = "" THEN <<>> ELSE <<":", u.port>>)

\* urlparse(url).hostname: the netloc without its userinfo and port
UrlHost(u) == IF u.slashes THEN u.host ELSE ""

validate_url(u) == UrlScheme(u) \in {"http", "https"} /\ UrlNetloc(u) # <<>>

DlIdle ==
    /\ dl_pc = "idle"
    /\ url = EmptyUrl
    /\ mkdirCalls = 0
    /\ httpCalls = 0
    /\ fileExists = FALSE
    /\ fileSize = 0
    /\ bodyLeft = 0
    /\ bodyEmpty = FALSE
    /\ dl_raised = "none"

\* a file may already be at output_path when the call starts
DlInit ==
    /\ dl_pc = "validate"
    /\ url \in Urls
    /\ mkdirCalls = 0
    /\ httpCalls = 0
    /\ fileExists \in BOOLEAN
    /\ fileSize = (IF fileExists THEN 1 ELSE 0)
    /\ bodyLeft = 0
    /\ bodyEmpty = FALSE
    /\ dl_raised = "none"

DlRaise(exc) ==
    /\ dl_raised' = exc
    /\ dl_pc' = "done"

\* if not url or not validate_url(url): raise ValueError
DlValidate ==
    /\ dl_pc = "validate"
    /\ IF url = EmptyUrl \/ ~validate_url(url)
       THEN DlRaise("ValueError")
       ELSE dl_pc' = "prepare" /\ UNCHANGED dl_raised
    /\ UNCHANGED <<url, mkdirCalls, httpCalls, fileExists, fileSize, bodyLeft, bodyEmpty>>
    /\ UNCHANGED <<sanVars, aiVars, cliVars, exVars, prVars, tgVars>>

\* output_dir.mkdir(parents=True, exist_ok=True); the name of output_path
DlPrepare ==
    /\ dl_pc = "prepare"
    /\ mkdirCalls' = mkdirCalls + 1
    /\ dl_pc' = "request"
    /\ UNCHANGED <<url, httpCalls, fileExists, fileSize, bodyLeft, bodyEmpty, dl_raised>>
    /\ UNCHANGED <<sanVars, aiVars, cliVars, exVars, prVars, tgVars>>

\* requests.get(...) and response.raise_for_status()
DlRequest ==
    /\ dl_pc = "request"
    /\ httpCalls' = httpCalls + 1
    /\ \/ /\ DlRaise("DownloadError")      \* Timeout, HTTPError, ConnectionError, RequestException
          /\ UNCHANGED <<bodyLeft, bodyEmpty>>
       \/ /\ \E n \in 0..MaxBodyChunks :
                /\ bodyLeft' = n
                /\ bodyEmpty' = (n = 0)
          /\ dl_pc' = "open"
          /\ UNCHANGED dl_raised
    /\ UNCHANGED <<url, mkdirCalls, fileExists, fileSize>>
    /\ UNCHANGED <<sanVars, aiVars, cliVars, exVars, prVars, tgVars>>

\* open(output_path, "wb")
DlOpen ==
    /\ dl_pc = "open"
    /\ fileExists' = TRUE
    /\ fileSize' = 0
    /\ dl_pc' = "stream"
    /\ UNCHANGED <<url, mkdirCalls, httpCalls, bodyLeft, bodyEmpty, dl_raised>>
    /\ UNCHANGED <<sanVars, aiVars, cliVars, exVars, prVars, tgVars>>

\* for chunk in response.iter_content(...): f.write(chunk); the read may fail
DlStream ==
    /\ dl_pc = "stream"
    /\ IF bodyLeft = 0
       THEN /\ dl_pc' = "verify"
            /\ UNCHANGED <<fileSize, bodyLeft, dl_raised>>
       ELSE \/ /\ fileSize' = fileSize + 1
               /\ bodyLeft' = bodyLeft - 1
               /\ UNCHANGED <<dl_pc, dl_raised>>
            \/ /\ DlRaise("DownloadError")   \* Timeout or ConnectionError while reading
               /\ UNCHANGED <<fileSize, bodyLeft>>
    /\ UNCHANGED <<url, mkdirCalls, httpCalls, fileExists, bodyEmpty>>
    /\ UNCHANGED <<sanVars, aiVars, cliVars, exVars, prVars, tgVars>>

\* a variant that raises for the empty file without removing it
DlVerifyKeepEmpty ==
    /\ dl_pc = "verify"
    /\ IF ~fileExists \/ fileSize = 0
       THEN DlRaise("DownloadError") /\ UNCHANGED fileExists
       ELSE dl_pc' = "done" /\ UNCHANGED <<fileExists, dl_raised>>
    /\ UNCHANGED <<url, mkdirCalls, httpCalls, fileSize, bodyLeft, bodyEmpty>>
    /\ UNCHANGED <<sanVars, aiVars, cliVars, exVars, prVars, tgVars>>

\* the checks after the with block: exists(), st_size == 0 -> unlink()
DlVerify ==
    /\ dl_pc = "verify"
    /\ IF ~fileExists
       THEN DlRaise("DownloadError") /\ UNCHANGED fileExists
       ELSE IF fileSize = 0
       THEN fileExists' = FALSE /\ DlRaise("DownloadError")
       ELSE dl_pc' = "done" /\ UNCHANGED <<fileExists, dl_raised>>
    /\ UNCHANGED <<url, mkdirCalls, httpCalls, fileSize, bodyLeft, bodyEmpty>>
    /\ UNCHANGED <<sanVars, aiVars, cliVars, exVars, prVars, tgVars>>

(***************************************************************************)
(* transcribe_audio, split_audio, transcribe_audio_chunked and             *)
(* generate_descriptions.  Durations are whole seconds.  A text is a       *)
(* sequence of tokens [kind, k, m]: the transcript the service returns for *)
(* file k ("text"), the placeholder of chunk k ("failed"), the marker of   *)
(* chunk k starting at minute m ("marker"), a line break ("nl") and the    *)
(* blank line between joined transcripts ("sep").  The original audio is   *)
(* file -1 and chunk i is file i.                                          *)
(***************************************************************************)
SecondsPerMinute == 60

MaxDuration == 180

MaxChunkMinutes == 2

MaxDelay == 1

MaxSplitCalls == 4

\* the durations at, just above and just below a whole number of minutes
Durations == {d \in 0..MaxDuration : d % SecondsPerMinute \in {0, 1, SecondsPerMinute - 1}}

ChunkMinutes == -1..MaxChunkMinutes

Ops == {"transcribe_audio", "transcribe_audio_chunked", "generate_descriptions"}

\* an exception message, by the phrases of interest it contains, as the
\* service writes them
Msgs == SUBSET {"API key", "blocked", "safety"}

\* str.lower() of a phrase
Lower(phrase) == IF phrase = "API key" THEN "api key" ELSE phrase

\* what the hosted service does during one call
ApiOutcomes ==
    [phase : {"upload_fails", "generate_fails", "text_fails"}, msg : Msgs, reply : {"empty"}]
    \cup [phase : {"reply"}, msg : {{}}, reply : {"empty", "blank", "text"}]

Event(e, k) == [ev |-> e, k |-> k]

Token(kind, k, m) == [kind |-> kind, k |-> k, m |-> m]

ChunkSeconds == chunk_duration_minutes * SecondsPerMinute

\* int(a / b) for a >= 0 and b # 0: the quotient rounded towards zero
TruncDiv(a, b) == IF b > 0 THEN a \div b ELSE 0 - (a \div (0 - b))

\* key = api_key or os.environ.get("GEMINI_API_KEY"); not key -> error
configure_gemini(arg, env) ==
    LET key == IF arg = "key" THEN "key" ELSE IF env = "unset" THEN "none" ELSE env
    IN  key = "key"

\* a classification that looks for the phrases in the message as it is
ClassifyCaseSensitive(msg) ==
    IF "api key" \in msg THEN "apikey"
    ELSE IF "blocked" \in msg \/ "safety" \in msg THEN "blocked"
    ELSE "failed"

\* the except Exception clause of transcribe_audio
Classify(msg) ==
    LET error_msg == {Lower(phrase) : phrase \in msg}
    IN  IF "api key" \in error_msg THEN "apikey"
        ELSE IF "blocked" \in error_msg \/ "safety" \in error_msg THEN "blocked"
        ELSE "failed"

\* the except Exception clause of generate_descriptions
ClassifySummary(msg) ==
    LET error_msg == {Lower(phrase) : phrase \in msg}
    IN  IF "api key" \in error_msg THEN "apikey" ELSE "failed"

\* the service has not been called
NoService == [phase |-> "none", msg |-> {}, reply |-> "none"]

Raised(events, type, kind) == [events |-> events, raised |-> type, kind |-> kind, text |-> <<>>]

Returned(events, text) == [events |-> events, raised |-> "none", kind |-> "none", text |-> text]

\* one call of transcribe_audio on file `file` of kind `kind`, the service doing o
transcribe_audio(kind, file, arg, env, o) ==
    IF kind = "missing" THEN Raised(<<>>, "FileNotFoundError", "not_found")
    ELSE IF kind = "dir" THEN Raised(<<>>, "FileNotFoundError", "not_a_file")
    ELSE IF ~configure_gemini(arg, env)
    THEN Raised(<<Event("lookup", file)>>, "TranscriptionError", "config")
    ELSE LET up == <<Event("lookup", file), Event("configure", file), Event("upload", file)>>
             gen == Append(up, Event("generate", file))
             del == Append(gen, Event("delete", file))
         IN  CASE o.phase = "upload_fails" -> Raised(up, "TranscriptionError", Classify(o.msg))
               [] o.phase = "generate_fails" -> Raised(gen, "TranscriptionError", Classify(o.msg))
               [] o.phase = "text_fails" -> Raised(del, "TranscriptionError", Classify(o.msg))
               [] o.reply = "empty" -> Raised(del, "TranscriptionError", "empty")
               [] o.reply = "blank" -> Returned(del, <<>>)
               [] OTHER -> Returned(del, <<Token("text", file, 0)>>)

Range(f) == {f[j] : j \in DOMAIN f}

\* the call with its start and its end recorded
CallEvents(file, r) ==
    <<Event("transcribe_audio", file)>> \o r.events
        \o <<Event(IF r.raised = "none" THEN "return" ELSE "raise", file)>>

\* "\n\n".join(ts)
RECURSIVE Join(_)
Join(ts) ==
    IF ts = <<>> THEN <<>>
    ELSE IF Len(ts) = 1 THEN ts[1]
    ELSE ts[1] \o <<Token("sep", 0, 0)>> \o Join(Tail(ts))

aiParams ==
    <<op, api_key, envKey, audioKind, duration, chunk_duration_minutes,
      delay_between_chunks, include_timestamps, transcript, episode_title>>

AiIdle ==
    /\ op = "idle"
    /\ ai_pc = "idle"
    /\ api_key = "none"
    /\ envKey = "unset"
    /\ audioKind = "missing"
    /\ duration = 0
    /\ chunk_duration_minutes = 0
    /\ delay_between_chunks = 0
    /\ include_timestamps = FALSE
    /\ transcript = ""
    /\ episode_title = ""
    /\ trace = <<>>
    /\ chunks = <<>>
    /\ start_time = 0
    /\ idx = 0
    /\ transcripts = <<>>
    /\ num_chunks = 0
    /\ tempDir = "none"
    /\ ai_raised = "none"
    /\ ai_kind = "none"
    /\ ai_result = <<>>
    /\ served = NoService

AiInit ==
    /\ op \in Ops
    /\ ai_pc = "start"
    /\ api_key \in {"none", "", "key"}
    /\ envKey \in {"unset", "", "key"}
    /\ audioKind \in (IF op = "generate_descriptions" THEN {"missing"} ELSE {"missing", "dir", "file"})
    /\ duration \in (IF op = "transcribe_audio_chunked" THEN Durations ELSE {0})
    /\ chunk_duration_minutes \in (IF op = "transcribe_audio_chunked" THEN ChunkMinutes ELSE {0})
    /\ delay_between_chunks \in (IF op = "transcribe_audio_chunked" THEN 0..MaxDelay ELSE {0})
    /\ include_timestamps \in (IF op = "generate_descriptions" THEN {FALSE} ELSE BOOLEAN)
    /\ transcript \in (IF op = "generate_descriptions" THEN {"", "blank", "text"} ELSE {""})
    /\ episode_title \in (IF op = "generate_descriptions" THEN {"", "blank", "text"} ELSE {""})
    /\ trace = <<>>
    /\ chunks = <<>>
    /\ start_time = 0
    /\ idx = 0
    /\ transcripts = <<>>
    /\ num_chunks = 0
    /\ tempDir = "none"
    /\ ai_raised = "none"
    /\ ai_kind = "none"
    /\ ai_result = <<>>
    /\ served = NoService

AiRaise(type, kind) ==
    /\ ai_raised' = type
    /\ ai_kind' = kind
    /\ ai_pc' = "raised"

AiGoto(pc) ==
    /\ ai_pc' = pc
    /\ UNCHANGED <<ai_raised, ai_kind>>

\* the operation ends as the call r of transcribe_audio ended
AiEndAs(r) ==
    /\ IF r.raised = "none" THEN AiGoto("returned") ELSE AiRaise(r.raised, r.kind)
    /\ ai_result' = r.text

\* transcribe_audio called on its own
TranscribeAudioCall ==
    /\ op = "transcribe_audio"
    /\ ai_pc = "start"
    /\ \E o \in ApiOutcomes :
        LET r == transcribe_audio(audioKind, -1, api_key, envKey, o)
        IN  /\ trace' = trace \o CallEvents(-1, r)
            /\ served' = (IF Event("upload", -1) \in Range(r.events) THEN o ELSE NoService)
            /\ AiEndAs(r)
    /\ UNCHANGED <<aiParams, chunks, start_time, idx, transcripts, num_chunks, tempDir>>
    /\ UNCHANGED <<sanVars, dlVars, cliVars, exVars, prVars, tgVars>>

\* transcribe_audio_chunked up to the choice between the single call and splitting
ChunkedStart ==
    /\ op = "transcribe_audio_chunked"
    /\ ai_pc = "start"
    /\ IF audioKind = "missing"
       THEN /\ AiRaise("FileNotFoundError", "not_found")
            /\ UNCHANGED <<trace, num_chunks>>
       ELSE /\ trace' = Append(trace, Event("ffprobe", -1))
            /\ \/ /\ AiRaise("TranscriptionError", "duration")
                  /\ UNCHANGED num_chunks
               \/ /\ audioKind = "file"
                  /\ IF duration <= ChunkSeconds
                     THEN AiGoto("single") /\ UNCHANGED num_chunks
                     ELSE IF ChunkSeconds = 0
                     THEN AiRaise("ZeroDivisionError", "division") /\ UNCHANGED num_chunks
                     ELSE /\ num_chunks' = TruncDiv(duration, ChunkSeconds) + 1
                          /\ AiGoto("tempdir")
    /\ UNCHANGED <<aiParams, chunks, start_time, idx, transcripts, tempDir, ai_result, served>>
    /\ UNCHANGED <<sanVars, dlVars, cliVars, exVars, prVars, tgVars>>

\* the audio is short enough: return transcribe_audio(audio_path, ...)
ChunkedSingle ==
    /\ ai_pc = "single"
    /\ \E o \in ApiOutcomes :
        LET r == transcribe_audio(audioKind, -1, api_key, envKey, o)
        IN  /\ trace' = trace \o CallEvents(-1, r)
            /\ served' = (IF Event("upload", -1) \in Range(r.events) THEN o ELSE NoService)
            /\ AiEndAs(r)
    /\ UNCHANGED <<aiParams, chunks, start_time, idx, transcripts, num_chunks, tempDir>>
    /\ UNCHANGED <<sanVars, dlVars, cliVars, exVars, prVars, tgVars>>

\* a directory that is removed only when the block ends without an exception
TempDirAfterUnlessRaising(raising) == IF raising THEN "exists" ELSE "removed"

\* the temporary directory once the with block is left, by return or by exception
TempDirAfter(raising) == "removed"

\* with tempfile.TemporaryDirectory(): split_audio up to its loop
SplitBegin ==
    /\ ai_pc = "tempdir"
    /\ trace' = Append(trace, Event("ffprobe", -1))
    /\ \/ /\ AiRaise("TranscriptionError", "duration")
          /\ tempDir' = TempDirAfter(TRUE)
       \/ /\ AiGoto("split")
          /\ tempDir' = "exists"
    /\ chunks' = <<>>
    /\ start_time' = 0
    /\ UNCHANGED <<aiParams, idx, transcripts, num_chunks, ai_result, served>>
    /\ UNCHANGED <<sanVars, dlVars, cliVars, exVars, prVars, tgVars>>

\* a loop condition that also admits start_time = total_duration
SplitContinuesInclusive == start_time <= duration

\* while start_time < total_duration
SplitContinues == start_time < duration

\* one test of split_audio's while condition, and one pass of its body
\* (at most MaxSplitCalls passes are followed)
SplitStep ==
    /\ ai_pc = "split"
    /\ IF SplitContinues
       THEN /\ Len(chunks) < MaxSplitCalls
            /\ trace' = Append(trace, Event("ffmpeg", start_time))
            /\ \/ /\ AiRaise("TranscriptionError", "split")
                  /\ tempDir' = TempDirAfter(TRUE)
                  /\ UNCHANGED <<chunks, start_time>>
               \/ /\ chunks' = Append(chunks, start_time)
                  /\ start_time' = start_time + ChunkSeconds
                  /\ UNCHANGED <<ai_pc, ai_raised, ai_kind, tempDir>>
       ELSE /\ AiGoto("loop")
            /\ UNCHANGED <<trace, chunks, start_time, tempDir>>
    /\ idx' = 0
    /\ UNCHANGED <<aiParams, transcripts, num_chunks, ai_result, served>>
    /\ UNCHANGED <<sanVars, dlVars, cliVars, exVars, prVars, tgVars>>

\* a marker on every chunk once timestamps are requested
MarkerWantedOnEvery(i) == include_timestamps

\* if include_timestamps and chunk_start_minutes > 0
MarkerWanted(i) == include_timestamps /\ i * chunk_duration_minutes > 0

\* a chunk loop that puts nothing in place of a failed chunk
ChunkEntryNoPlaceholder(i, r) ==
    IF r.raised = "TranscriptionError" THEN <<>>
    ELSE IF MarkerWanted(i)
    THEN <<Token("marker", i + 1, i * chunk_duration_minutes), Token("nl", 0, 0)>> \o r.text
    ELSE r.text

\* what chunk i contributes to transcripts when its call ended as r
ChunkEntry(i, r) ==
    IF r.raised = "TranscriptionError" THEN <<Token("failed", i + 1, 0)>>
    ELSE IF MarkerWanted(i)
    THEN <<Token("marker", i + 1, i * chunk_duration_minutes), Token("nl", 0, 0)>> \o r.text
    ELSE r.text

\* a delay that is also taken after the last chunk
SleepAfterEvery(i, n) ==
    IF i < n /\ delay_between_chunks > 0 THEN <<Event("sleep", delay_between_chunks)>> ELSE <<>>

\* time.sleep(delay_between_chunks) after chunk i of n
SleepAfter(i, n) ==
    IF i < n - 1 /\ delay_between_chunks > 0 THEN <<Event("sleep", delay_between_chunks)>> ELSE <<>>

\* one pass of the chunk loop; ffmpeg has written the chunk file it is run on
ChunkStep ==
    /\ ai_pc = "loop"
    /\ idx < Len(chunks)
    /\ \E o \in ApiOutcomes :
        LET r == transcribe_audio("file", idx, api_key, envKey, o)
        IN  /\ transcripts' = Append(transcripts, ChunkEntry(idx, r))
            /\ trace' = trace \o CallEvents(idx, r) \o SleepAfter(idx, Len(chunks))
    /\ idx' = idx + 1
    /\ UNCHANGED <<aiParams, chunks, start_time, num_chunks, tempDir, ai_pc, ai_raised, ai_kind, ai_result, served>>
    /\ UNCHANGED <<sanVars, dlVars, cliVars, exVars, prVars, tgVars>>

\* the loop is over: the with block ends and the transcripts are joined
ChunkedFinish ==
    /\ ai_pc = "loop"
    /\ idx = Len(chunks)
    /\ tempDir' = TempDirAfter(FALSE)
    /\ ai_result' = Join(transcripts)
    /\ AiGoto("returned")
    /\ UNCHANGED <<aiParams, trace, chunks, start_time, idx, transcripts, num_chunks, served>>
    /\ UNCHANGED <<sanVars, dlVars, cliVars, exVars, prVars, tgVars>>

\* a test that takes whitespace for text
IsEmptyText(t) == t = ""

\* not t or not t.strip()
IsBlankText(t) == t \in {"", "blank"}

\* generate_descriptions; the parsed reply is one "descriptions" token
GenerateDescriptionsCall ==
    /\ op = "generate_descriptions"
    /\ ai_pc = "start"
    /\ IF IsBlankText(transcript)
       THEN AiRaise("SummaryError", "empty_transcript") /\ UNCHANGED <<trace, ai_result, served>>
       ELSE IF IsBlankText(episode_title)
       THEN AiRaise("SummaryError", "empty_title") /\ UNCHANGED <<trace, ai_result, served>>
       ELSE IF ~configure_gemini(api_key, envKey)
       THEN /\ trace' = Append(trace, Event("lookup", -1))
            /\ AiRaise("SummaryError", "config")
            /\ UNCHANGED <<ai_result, served>>
       ELSE /\ trace' = trace \o <<Event("lookup", -1), Event("configure", -1), Event("generate", -1)>>
            /\ \E o \in {x \in ApiOutcomes : x.phase # "upload_fails"} :
                /\ served' = o
                /\ IF o.phase \in {"generate_fails", "text_fails"}
                   THEN AiRaise("SummaryError", ClassifySummary(o.msg)) /\ UNCHANGED ai_result
                   ELSE IF o.reply = "empty"
                   THEN AiRaise("SummaryError", "empty") /\ UNCHANGED ai_result
                   ELSE AiGoto("returned") /\ ai_result' = <<Token("descriptions", 0, 0)>>
    /\ UNCHANGED <<aiParams, chunks, start_time, idx, transcripts, num_chunks, tempDir>>
    /\ UNCHANGED <<sanVars, dlVars, cliVars, exVars, prVars, tgVars>>

(***************************************************************************)
(* The transcribe, summarize and process commands of cli.py, from the      *)
(* entry of the command function (click has validated the options: an      *)
(* --input path exists).  A stage function is called in one step and ends  *)
(* "ok" or with the type of the exception it raises; `written` holds the   *)
(* files the command has put on disk.                                      *)
(***************************************************************************)
Commands == {"transcribe", "summarize", "process"}

\* the classes an exception type is an instance of
Bases(exc) ==
    CASE exc = "UnicodeEncodeError" -> {"UnicodeEncodeError", "ValueError"}
      [] exc = "UnicodeDecodeError" -> {"UnicodeDecodeError", "ValueError"}
      [] exc = "FileNotFoundError" -> {"FileNotFoundError", "OSError"}
      [] OTHER -> {exc}

IsInstance(exc, classes) == Bases(exc) \cap classes # {}

\* a test that takes the empty string for a key
KeyMissingOnlyUnset(key) == key = "unset"

\* api_key = os.environ.get("GEMINI_API_KEY"); if not api_key
KeyMissing(key) == key \in {"unset", ""}

\* the except clauses of process, in their order
ProcessDiagnostic(exc) ==
    IF IsInstance(exc, {"ValueError", "DownloadError"}) THEN "Download error"
    ELSE IF IsInstance(exc, {"FileNotFoundError", "AudioExtractionError"}) THEN "Extraction error"
    ELSE IF IsInstance(exc, {"TranscriptionError"}) THEN "Transcription error"
    ELSE IF IsInstance(exc, {"SummaryError"}) THEN "Summary error"
    ELSE "traceback"

\* the except clause of transcribe and of summarize
CommandDiagnostic(exc) ==
    IF cmd = "transcribe" /\ IsInstance(exc, {"FileNotFoundError", "TranscriptionError"}) THEN "Error"
    ELSE IF cmd = "summarize" /\ IsInstance(exc, {"FileNotFoundError", "SummaryError"}) THEN "Error"
    ELSE "traceback"

\* a try block that goes on after a statement has raised
StageAlwaysContinues(outcome) == TRUE

\* a statement of the try block that raises ends the block
StageSucceeded(outcome) == outcome = "ok"

\* writing text to a file opened with the locale's encoding
WriteOutcomes == {"ok", "UnicodeEncodeError", "OSError"}

CliIdle ==
    /\ cmd = "idle"
    /\ cli_pc = "idle"
    /\ environKey = "unset"
    /\ chunkedFlag = FALSE
    /\ inputKind = "file"
    /\ outputOpt = FALSE
    /\ configLocal = "full"
    /\ stages = <<>>
    /\ written = {}
    /\ exit_code = -1
    /\ diagnostic = "none"
    /\ raisedIn = 0
    /\ raisedExc = "none"

CliInit ==
    /\ cmd \in Commands
    /\ cli_pc = "start"
    /\ environKey \in {"unset", "", "key"}
    /\ chunkedFlag \in (IF cmd = "transcribe" THEN BOOLEAN ELSE {FALSE})
    /\ inputKind \in (IF cmd = "process" THEN {"file"} ELSE {"file", "dir"})
    /\ outputOpt \in BOOLEAN
    /\ configLocal \in {"full", "no_output_dir", "absent"}
    /\ stages = <<>>
    /\ written = {}
    /\ exit_code = -1
    /\ diagnostic = "none"
    /\ raisedIn = 0
    /\ raisedExc = "none"

cliParams == <<cmd, environKey, chunkedFlag, inputKind, outputOpt, configLocal>>

\* Path(output) if output else Path(config["local"]["output_dir"]) raises KeyError
OutputDirMissing == ~outputOpt /\ configLocal # "full"

\* the command ends with status 1 on the exception exc raised in step `step`
CliFail(step, exc, diag) ==
    /\ raisedIn' = step
    /\ raisedExc' = exc
    /\ diagnostic' = diag
    /\ exit_code' = 1
    /\ cli_pc' = "exited"

CliGoto(pc) ==
    /\ cli_pc' = pc
    /\ UNCHANGED <<exit_code, diagnostic, raisedIn, raisedExc>>

CliSucceed ==
    /\ cli_pc' = "exited"
    /\ exit_code' = 0
    /\ UNCHANGED <<diagnostic, raisedIn, raisedExc>>

\* a step of process: it ends as `outcome`, and the next one is `next`
ProcessStep(step, outcome, next) ==
    IF StageSucceeded(outcome) THEN CliGoto(next)
    ELSE CliFail(step, outcome, ProcessDiagnostic(outcome))

\* a step of transcribe or summarize
CommandStep(step, outcome, next) ==
    IF StageSucceeded(outcome) THEN CliGoto(next)
    ELSE CliFail(step, outcome, CommandDiagnostic(outcome))

Called(stage, outcome) == Append(stages, [stage |-> stage, outcome |-> outcome])

\* the check of GEMINI_API_KEY that opens transcribe, summarize and process
CliKeyCheck ==
    /\ cli_pc = "start"
    /\ IF KeyMissing(environKey)
       THEN /\ cli_pc' = "exited"
            /\ exit_code' = 1
            /\ diagnostic' = "Error: GEMINI_API_KEY"
            /\ UNCHANGED <<raisedIn, raisedExc>>
       ELSE CliGoto(IF cmd = "process" THEN "output_base" ELSE "run")
    /\ UNCHANGED <<cliParams, stages, written>>
    /\ UNCHANGED <<sanVars, dlVars, aiVars, exVars, prVars, tgVars>>

\* output_base = Path(output) if output else Path(config["local"]["output_dir"])
ProcessOutputBase ==
    /\ cmd = "process"
    /\ cli_pc = "output_base"
    /\ IF OutputDirMissing THEN CliFail(0, "KeyError", "traceback") ELSE CliGoto("download")
    /\ UNCHANGED <<cliParams, stages, written>>
    /\ UNCHANGED <<sanVars, dlVars, aiVars, exVars, prVars, tgVars>>

\* [1/4] download_clubhouse_video(url, audio_dir)
ProcessDownload ==
    /\ cmd = "process"
    /\ cli_pc = "download"
    /\ \E outcome \in {"ok", "ValueError", "DownloadError", "OSError"} :
        /\ stages' = Called("download", outcome)
        /\ written' = (IF outcome = "ok" THEN written \cup {"video"} ELSE written)
        /\ ProcessStep(1, outcome, "extract")
    /\ UNCHANGED cliParams
    /\ UNCHANGED <<sanVars, dlVars, aiVars, exVars, prVars, tgVars>>

\* [2/4] extract_audio(video_path, overwrite=True)
ProcessExtract ==
    /\ cmd = "process"
    /\ cli_pc = "extract"
    /\ IF configLocal = "absent"
       THEN /\ CliFail(2, "KeyError", ProcessDiagnostic("KeyError"))   \* config["local"].get(...)
            /\ UNCHANGED <<stages, written>>
       ELSE \E outcome \in {"ok", "FileNotFoundError", "AudioExtractionError"} :
                /\ (outcome = "FileNotFoundError") => "video" \notin written
                /\ stages' = Called("extract", outcome)
                /\ written' = (IF outcome = "ok" THEN written \cup {"audio"} ELSE written)
                /\ ProcessStep(2, outcome, "transcribe")
    /\ UNCHANGED cliParams
    /\ UNCHANGED <<sanVars, dlVars, aiVars, exVars, prVars, tgVars>>

\* [3/4] transcribe_audio(audio_path, api_key, language)
ProcessTranscribe ==
    /\ cmd = "process"
    /\ cli_pc = "transcribe"
    /\ \E outcome \in {"ok", "FileNotFoundError", "TranscriptionError"} :
        /\ (outcome = "FileNotFoundError") => "audio" \notin written
        /\ stages' = Called("transcribe", outcome)
        /\ ProcessStep(3, outcome, "write_transcript")
    /\ UNCHANGED <<cliParams, written>>
    /\ UNCHANGED <<sanVars, dlVars, aiVars, exVars, prVars, tgVars>>

\* a process that keeps the transcript in memory and goes on to summarize
ProcessWriteTranscriptSkipped ==
    /\ cmd = "process"
    /\ cli_pc = "write_transcript"
    /\ CliGoto("summarize")
    /\ UNCHANGED <<cliParams, stages, written>>
    /\ UNCHANGED <<sanVars, dlVars, aiVars, exVars, prVars, tgVars>>

\* transcript_dir.mkdir(...); transcript_path.write_text(transcript)
ProcessWriteTranscript ==
    /\ cmd = "process"
    /\ cli_pc = "write_transcript"
    /\ \E outcome \in WriteOutcomes :
        /\ written' = (IF outcome = "ok" THEN written \cup {"transcript"} ELSE written)
        /\ ProcessStep(3, outcome, "summarize")
    /\ UNCHANGED <<cliParams, stages>>
    /\ UNCHANGED <<sanVars, dlVars, aiVars, exVars, prVars, tgVars>>

\* [4/4] generate_descriptions(transcript, title, api_key, ...)
ProcessSummarize ==
    /\ cmd = "process"
    /\ cli_pc = "summarize"
    /\ \E outcome \in {"ok", "SummaryError"} :
        /\ stages' = Called("summarize", outcome)
        /\ ProcessStep(4, outcome, "write_descriptions")
    /\ UNCHANGED <<cliParams, written>>
    /\ UNCHANGED <<sanVars, dlVars, aiVars, exVars, prVars, tgVars>>

\* desc_dir.mkdir(...); yaml.dump(descriptions, f, ...); the closing report
ProcessWriteDescriptions ==
    /\ cmd = "process"
    /\ cli_pc = "write_descriptions"
    /\ \E outcome \in WriteOutcomes :
        /\ written' = (IF outcome = "ok" THEN written \cup {"descriptions"} ELSE written)
        /\ IF StageSucceeded(outcome) THEN CliSucceed
           ELSE CliFail(4, outcome, ProcessDiagnostic(outcome))
    /\ UNCHANGED <<cliParams, stages>>
    /\ UNCHANGED <<sanVars, dlVars, aiVars, exVars, prVars, tgVars>>

\* transcribe: transcribe_audio_chunked or transcribe_audio;
\* summarize: Path(input_path).read_text() and generate_descriptions
CommandRun ==
    /\ cmd \in {"transcribe", "summarize"}
    /\ cli_pc = "run"
    /\ IF cmd = "transcribe"
       THEN \E outcome \in {"ok", "FileNotFoundError", "TranscriptionError"} :
                /\ (outcome = "FileNotFoundError") <=> (inputKind = "dir" /\ ~chunkedFlag)
                /\ (inputKind = "dir" /\ chunkedFlag) => outcome = "TranscriptionError"
                /\ stages' = Called(IF chunkedFlag THEN "transcribe_chunked" ELSE "transcribe", outcome)
                /\ CommandStep(1, outcome, "save")
       ELSE IF inputKind = "dir"
       THEN /\ CliFail(1, "IsADirectoryError", CommandDiagnostic("IsADirectoryError"))
            /\ UNCHANGED stages
       ELSE \E outcome \in {"ok", "SummaryError"} :
                /\ stages' = Called("summarize", outcome)
                /\ CommandStep(1, outcome, "save")
    /\ UNCHANGED <<cliParams, written>>
    /\ UNCHANGED <<sanVars, dlVars, aiVars, exVars, prVars, tgVars>>

\* transcribe: output_path.write_text(transcript); summarize: yaml.dump(...)
CommandSave ==
    /\ cmd \in {"transcribe", "summarize"}
    /\ cli_pc = "save"
    /\ IF OutputDirMissing
       THEN /\ CliFail(2, "KeyError", CommandDiagnostic("KeyError"))
            /\ UNCHANGED written
       ELSE \E outcome \in WriteOutcomes :
                /\ written' = (IF outcome = "ok"
                               THEN written \cup {IF cmd = "transcribe" THEN "transcript" ELSE "descriptions"}
                               ELSE written)
                /\ IF StageSucceeded(outcome) THEN CliSucceed
                   ELSE CliFail(2, outcome, CommandDiagnostic(outcome))
    /\ UNCHANGED <<cliParams, stages>>
    /\ UNCHANGED <<sanVars, dlVars, aiVars, exVars, prVars, tgVars>>

(***************************************************************************)
(* extract_audio.  The file system is changed by the call and by the       *)
(* encoder it runs only.  The file at output_path is "absent", "old" (as   *)
(* it was when the call started) or "new" (written by the encoder's run).  *)
(***************************************************************************)
ExIdle ==
    /\ ex_pc = "idle"
    /\ videoKind = "missing"
    /\ overwrite = FALSE
    /\ output_path = "none"
    /\ outputBefore = "absent"
    /\ outputFile = "absent"
    /\ outDirExists = FALSE
    /\ dirsCreated = 0
    /\ probeCalls = 0
    /\ probeStatus = "none"
    /\ runCalls = 0
    /\ runStatus = "none"
    /\ ex_raised = "none"
    /\ ex_kind = "none"
    /\ ex_result = "none"

\* a file at output_path lies in an existing directory, and so does the
\* video file, beside which the output goes when output_path is None
ExInit ==
    /\ ex_pc = "validate"
    /\ videoKind \in {"missing", "dir", "file"}
    /\ overwrite \in BOOLEAN
    /\ output_path \in {"none", "given"}
    /\ outputBefore \in {"absent", "old"}
    /\ outputFile = outputBefore
    /\ outDirExists \in (IF outputBefore = "old" \/ (output_path = "none" /\ videoKind # "missing")
                         THEN {TRUE} ELSE BOOLEAN)
    /\ dirsCreated = 0
    /\ probeCalls = 0
    /\ probeStatus = "none"
    /\ runCalls = 0
    /\ runStatus = "none"
    /\ ex_raised = "none"
    /\ ex_kind = "none"
    /\ ex_result = "none"

exParams == <<videoKind, overwrite, output_path, outputBefore>>

ExRaise(type, kind) ==
    /\ ex_raised' = type
    /\ ex_kind' = kind
    /\ ex_pc' = "done"
    /\ UNCHANGED ex_result

ExGoto(pc) ==
    /\ ex_pc' = pc
    /\ UNCHANGED <<ex_raised, ex_kind, ex_result>>

\* a validation that leaves out the is_file test
InputRejectedOnlyAbsent(kind) == kind = "missing"

\* not video_path.exists() or not video_path.is_file()
InputRejected(kind) == kind \in {"missing", "dir"}

\* the validation of the input file
ExValidate ==
    /\ ex_pc = "validate"
    /\ IF InputRejected(videoKind)
       THEN ExRaise("FileNotFoundError", IF videoKind = "missing" THEN "not_found" ELSE "not_a_file")
       ELSE ExGoto("probe")
    /\ UNCHANGED <<exParams, outputFile, outDirExists, dirsCreated, probeCalls, probeStatus, runCalls, runStatus>>
    /\ UNCHANGED <<sanVars, dlVars, aiVars, cliVars, prVars, tgVars>>

\* check_ffmpeg: [ffmpeg_path, "-version"] is run; a SubprocessError or a
\* FileNotFoundError makes it False, any other OSError escapes
ExProbe ==
    /\ ex_pc = "probe"
    /\ probeCalls' = probeCalls + 1
    /\ \/ probeStatus' = "zero" /\ ExGoto("prepare")
       \/ probeStatus' \in {"nonzero", "timeout", "not_found"}
            /\ ExRaise("AudioExtractionError", "no_ffmpeg")
       \/ probeStatus' = "oserror" /\ ExRaise("PermissionError", "probe")
    /\ UNCHANGED <<exParams, outputFile, outDirExists, dirsCreated, runCalls, runStatus>>
    /\ UNCHANGED <<sanVars, dlVars, aiVars, cliVars, prVars, tgVars>>

\* output_path.parent.mkdir(parents=True, exist_ok=True)
ExPrepare ==
    /\ ex_pc = "prepare"
    /\ IF outDirExists
       THEN ExGoto("check_output") /\ UNCHANGED <<outDirExists, dirsCreated>>
       ELSE \/ /\ outDirExists' = TRUE
               /\ dirsCreated' = dirsCreated + 1
               /\ ExGoto("check_output")
            \/ /\ ExRaise("OSError", "mkdir")
               /\ UNCHANGED <<outDirExists, dirsCreated>>
    /\ UNCHANGED <<exParams, outputFile, probeCalls, probeStatus, runCalls, runStatus>>
    /\ UNCHANGED <<sanVars, dlVars, aiVars, cliVars, prVars, tgVars>>

\* a test that never refuses
NeverRefuses(exists, ow) == FALSE

\* output_path.exists() and not overwrite
RefusesOverwrite(exists, ow) == exists /\ ~ow

ExCheckOutput ==
    /\ ex_pc = "check_output"
    /\ IF RefusesOverwrite(outputFile # "absent", overwrite)
       THEN ExRaise("AudioExtractionError", "exists")
       ELSE ExGoto("run")
    /\ UNCHANGED <<exParams, outputFile, outDirExists, dirsCreated, probeCalls, probeStatus, runCalls, runStatus>>
    /\ UNCHANGED <<sanVars, dlVars, aiVars, cliVars, prVars, tgVars>>

\* a return that takes the output file for granted
OutputAssumed(file) == TRUE

\* output_path.exists() after the run
OutputVerified(file) == file # "absent"

\* how a run of the extraction command can end
RunStatuses == {"zero", "nonzero", "timeout", "error"}

\* subprocess.run(cmd, ..., timeout=3600) and what follows it: the encoder
\* leaves the output file as it was, writes it, or leaves none
ExRun ==
    /\ ex_pc = "run"
    /\ runCalls' = runCalls + 1
    /\ \E status \in RunStatuses, file \in {outputFile, "new", "absent"} :
        /\ runStatus' = status
        /\ outputFile' = file
        /\ CASE status = "nonzero" -> ExRaise("AudioExtractionError", "failed")
             [] status = "timeout" -> ExRaise("AudioExtractionError", "timeout")
             [] status = "error" -> ExRaise("AudioExtractionError", "subprocess")
             [] OTHER ->
                    IF OutputVerified(file)
                    THEN /\ ex_result' = "output_path"
                         /\ ex_pc' = "done"
                         /\ UNCHANGED <<ex_raised, ex_kind>>
                    ELSE ExRaise("AudioExtractionError", "no_output")
    /\ UNCHANGED <<exParams, outDirExists, dirsCreated, probeCalls, probeStatus>>
    /\ UNCHANGED <<sanVars, dlVars, aiVars, cliVars, prVars, tgVars>>

(***************************************************************************)
(* _parse_response and _parse_tags of summarizer.py.  A reply is the       *)
(* sequence of its lines; a line is its leading whitespace (indent), the   *)
(* label text it then begins with (head, "" for none) and what follows     *)
(* (body: "" or "text", a text with no whitespace at its end).  A value of *)
(* a field is a sequence of pieces joined by newlines; a piece is the part *)
(* `part` of line n of the reply, of the shape `text`: "" (empty), " "     *)
(* (whitespace), "x" (text) or " x" (text after whitespace).               *)
(***************************************************************************)
MaxLines == 2

MaxExtraLines == 1

\* the keys of field_mapping, in its order
Labels == <<"YOUTUBE_TITLE:", "YOUTUBE_DESCRIPTION:", "SPOTIFY_TITLE:", "SPOTIFY_DESCRIPTION:", "TAGS:">>

LowerLabels == <<"youtube_title:", "youtube_description:", "spotify_title:", "spotify_description:", "tags:">>

\* the values of field_mapping
Fields == <<"youtube_title", "youtube_description", "spotify_title", "spotify_description", "tags">>

NumLabels == Len(Labels)

\* str.upper() of the text a line begins with
Upper(head) ==
    IF \E j \in DOMAIN LowerLabels : LowerLabels[j] = head
    THEN Labels[CHOOSE j \in DOMAIN LowerLabels : LowerLabels[j] = head]
    ELSE head

Line(indent, head, body) == [indent |-> indent, head |-> head, body |-> body]

\* the lines a reply is made of
LineForms ==
    {Line(i, "", b) : i \in BOOLEAN, b \in {"", "text"}}
    \cup {Line(i, Labels[j], b) : i \in BOOLEAN, j \in DOMAIN Labels, b \in {"", "text"}}
    \cup {Line(FALSE, LowerLabels[j], "text") : j \in DOMAIN LowerLabels}

IsBlankLine(line) == line.head = "" /\ line.body = ""

ShortReplies == UNION {[1..k -> LineForms] : k \in 0..MaxLines}

\* s with x put in before its element at position q
InsertAt(s, q, x) == SubSeq(s, 1, q - 1) \o <<x>> \o SubSeq(s, q, Len(s))

\* the lines put between label lines: an empty one and an indented text
ExtraLines == {Line(FALSE, "", ""), Line(TRUE, "", "text")}

RECURSIVE WithExtraLines(_, _)
WithExtraLines(replies, k) ==
    IF k = 0 THEN replies
    ELSE replies \cup WithExtraLines(
            UNION {{InsertAt(r, q, x) : q \in 1..(Len(r) + 1), x \in ExtraLines} : r \in replies},
            k - 1)

\* the replies with every label on one line, in any order and in either
\* case, and up to MaxExtraLines other lines
CompleteReplies ==
    LET orders == {f \in [1..NumLabels -> 1..NumLabels] : \A a, b \in 1..NumLabels : f[a] = f[b] => a = b}
        plain == {[j \in 1..NumLabels |-> Line(FALSE, (IF low THEN LowerLabels ELSE Labels)[f[j]], "text")] :
                    f \in orders, low \in BOOLEAN}
    IN  WithExtraLines(plain, MaxExtraLines)

\* the replies in which blank lines, up to MaxExtraLines of them, lie between
\* a line that a label starts and another line
GapReplies ==
    LET blanks == {Line(i, "", "") : i \in BOOLEAN}
        gaps == UNION {[1..k -> blanks] : k \in 1..MaxExtraLines}
        openers == {x \in LineForms : x.head # "" /\ ~x.indent}
    IN  {<<a>> \o g \o <<b>> : a \in openers, g \in gaps, b \in LineForms}

Replies == ShortReplies \cup CompleteReplies \cup GapReplies

FallbackTitles == {"", "fallback"}

Piece(n, part, text) == [n |-> n, part |-> part, text |-> text]

IsBlankPiece(p) == p.text \in {"", " "}

\* the text of a line that begins with no label
LineText(line) ==
    IF line.body = "" THEN (IF line.indent THEN " " ELSE "")
    ELSE IF line.indent THEN " x" ELSE "x"

\* s without the elements before the first and after the last of those at
\* the positions `keep`, which are the ones that are not blank
DropBlankEnds(s, keep) ==
    IF keep = {} THEN <<>>
    ELSE SubSeq(s, CHOOSE j \in keep : \A x \in keep : j <= x,
                   CHOOSE j \in keep : \A x \in keep : j >= x)

\* response_text.strip().split("\n"), each line with its number in the reply
StripLines(reply) ==
    LET numbered == [n \in DOMAIN reply |-> [n |-> n, line |-> reply[n]]]
        kept == DropBlankEnds(numbered, {n \in DOMAIN reply : ~IsBlankLine(reply[n])})
    IN  IF kept = <<>> THEN <<[n |-> 0, line |-> Line(FALSE, "", "")]>>
        ELSE [j \in DOMAIN kept |->
                IF j = 1 THEN [n |-> kept[1].n, line |-> [kept[1].line EXCEPT !.indent = FALSE]]
                ELSE kept[j]]

\* "\n".join(current_content).strip()
StripPieces(pieces) ==
    LET kept == DropBlankEnds(pieces, {j \in DOMAIN pieces : ~IsBlankPiece(pieces[j])})
    IN  [j \in DOMAIN kept |-> IF j = 1 /\ kept[1].text = " x" THEN [kept[1] EXCEPT !.text = "x"] ELSE kept[j]]

\* _parse_tags("\n".join(current_content)): a piece gives one tag, trimmed, and none when blank
parse_tags(pieces) ==
    LET tags == SelectSeq(pieces, LAMBDA p : ~IsBlankPiece(p))
    IN  [j \in DOMAIN tags |-> [tags[j] EXCEPT !.text = "x"]]

\* a result that starts with empty titles
DefaultResultNoFallback(fallback) ==
    [f \in Range(Fields) |-> <<>>]

\* the result dictionary before the lines are read
DefaultResult(fallback) ==
    [f \in Range(Fields) |->
        IF f \in {"youtube_title", "spotify_title"} /\ fallback # ""
        THEN <<Piece(0, "fallback", "x")>> ELSE <<>>]

\* the field of the first prefix that line.strip().upper() starts with, or "none"
FoundField(line) ==
    LET line_upper == Upper(line.head)
        hits == {j \in DOMAIN Labels : line_upper = Labels[j]}
    IN  IF hits = {} THEN "none" ELSE Fields[CHOOSE j \in hits : \A x \in hits : j <= x]

\* line[len(prefix):].strip(), as the pieces it gives: the slice is taken
\* from the line with its indent, so an indented line gives the end of its
\* label and its body
Content(e) ==
    IF e.line.indent THEN <<Piece(e.n, "mangled", "x")>>
    ELSE IF e.line.body = "" THEN <<>>
    ELSE <<Piece(e.n, "content", "x")>>

\* the save of the current field's content into the result
SaveField(st) ==
    IF st.current_field # "none" /\ st.current_content # <<>>
    THEN [st.result EXCEPT ![st.current_field] =
            IF st.current_field = "tags" THEN parse_tags(st.current_content)
            ELSE StripPieces(st.current_content)]
    ELSE st.result

\* a loop that forgets the lines that carry no label
ContinueDropped(content, e) == content

\* current_content.append(line)
Continue(content, e) == Append(content, Piece(e.n, "line", LineText(e.line)))

\* one pass of the loop over the lines
ParseLine(st, e) ==
    LET found_field == FoundField(e.line)
    IN  IF found_field # "none"
        THEN [result |-> SaveField(st), current_field |-> found_field, current_content |-> Content(e)]
        ELSE IF st.current_field # "none"
        THEN [st EXCEPT !.current_content = Continue(st.current_content, e)]
        ELSE st

RECURSIVE ParseLines(_, _)
ParseLines(st, lines) ==
    IF lines = <<>> THEN st ELSE ParseLines(ParseLine(st, Head(lines)), Tail(lines))

parse_response(reply, fallback, tags_wanted) ==
    LET start == [result |-> DefaultResult(fallback), current_field |-> "none", current_content |-> <<>>]
        saved == SaveField(ParseLines(start, StripLines(reply)))
    IN  IF tags_wanted THEN saved ELSE [saved EXCEPT !["tags"] = <<>>]

PrIdle ==
    /\ pr_pc = "idle"
    /\ response_text = <<>>
    /\ fallback_title = ""
    /\ include_tags = FALSE
    /\ parsed = DefaultResult("")

PrInit ==
    /\ pr_pc = "call"
    /\ response_text \in Replies
    /\ fallback_title \in FallbackTitles
    /\ include_tags \in BOOLEAN
    /\ parsed = DefaultResult("")

ParseResponseCall ==
    /\ pr_pc = "call"
    /\ parsed' = parse_response(response_text, fallback_title, include_tags)
    /\ pr_pc' = "done"
    /\ UNCHANGED <<response_text, fallback_title, include_tags>>
    /\ UNCHANGED <<sanVars, dlVars, aiVars, cliVars, exVars, tgVars>>

(***************************************************************************)
(* _parse_tags of summarizer.py, on texts given character by character.    *)
(***************************************************************************)
MaxTagsLen == 4

TagChars == {"a", " ", "#", ",", "\n"}

TagTexts == UNION {[1..k -> TagChars] : k \in 0..MaxTagsLen}

\* tags_text.replace("\n", ",")
ReplaceNewlines(t) == [j \in DOMAIN t |-> IF t[j] = "\n" THEN "," ELSE t[j]]

\* t.split(","): the texts between the commas, empty ones included
RECURSIVE SplitOnComma(_)
SplitOnComma(t) ==
    LET commas == {j \in DOMAIN t : t[j] = ","}
    IN  IF commas = {} THEN <<t>>
        ELSE LET first == CHOOSE j \in commas : \A x \in commas : j <= x
             IN  <<SubSeq(t, 1, first - 1)>> \o SplitOnComma(SubSeq(t, first + 1, Len(t)))

\* t.strip(chars): t without the characters of `chars` at its start and end
StripOf(t, chars) == DropBlankEnds(t, {j \in DOMAIN t : t[j] \notin chars})

\* tag.strip().strip("#")
CleanTag(tag) == StripOf(StripOf(tag, {" ", "\n"}), {"#"})

\* _parse_tags on a text of characters
parse_tags_text(t) ==
    LET pieces == SplitOnComma(ReplaceNewlines(t))
        tags == [j \in DOMAIN pieces |-> CleanTag(pieces[j])]
    IN  SelectSeq(tags, LAMBDA tag : tag # <<>>)

TgIdle ==
    /\ tg_pc = "idle"
    /\ tags_text = <<>>
    /\ tag_list = <<>>

TgInit ==
    /\ tg_pc = "call"
    /\ tags_text \in TagTexts
    /\ tag_list = <<>>

ParseTagsCall ==
    /\ tg_pc = "call"
    /\ tag_list' = parse_tags_text(tags_text)
    /\ tg_pc' = "done"
    /\ UNCHANGED tags_text
    /\ UNCHANGED <<sanVars, dlVars, aiVars, cliVars, exVars, prVars>>

(***************************************************************************)
(* Specifications                                                          *)
(***************************************************************************)
InitSanitize == SanInit /\ DlIdle /\ AiIdle /\ CliIdle /\ ExIdle /\ PrIdle /\ TgIdle

NextSanitize == SanitizeCall

SpecSanitize == InitSanitize /\ [][NextSanitize]_vars

InitDownload == SanIdle /\ DlInit /\ AiIdle /\ CliIdle /\ ExIdle /\ PrIdle /\ TgIdle

NextDownload == DlValidate \/ DlPrepare \/ DlRequest \/ DlOpen \/ DlStream \/ DlVerify

SpecDownload == InitDownload /\ [][NextDownload]_vars

InitAI == SanIdle /\ DlIdle /\ AiInit /\ CliIdle /\ ExIdle /\ PrIdle /\ TgIdle

NextAI ==
    \/ TranscribeAudioCall
    \/ ChunkedStart
    \/ ChunkedSingle
    \/ SplitBegin
    \/ SplitStep
    \/ ChunkStep
    \/ ChunkedFinish
    \/ GenerateDescriptionsCall

SpecAI == InitAI /\ [][NextAI]_vars

InitCli == SanIdle /\ DlIdle /\ AiIdle /\ CliInit /\ ExIdle /\ PrIdle /\ TgIdle

NextCli ==
    \/ CliKeyCheck
    \/ ProcessOutputBase
    \/ ProcessDownload
    \/ ProcessExtract
    \/ ProcessTranscribe
    \/ ProcessWriteTranscript
    \/ ProcessSummarize
    \/ ProcessWriteDescriptions
    \/ CommandRun
    \/ CommandSave

SpecCli == InitCli /\ [][NextCli]_vars

InitExtract == SanIdle /\ DlIdle /\ AiIdle /\ CliIdle /\ ExInit /\ PrIdle /\ TgIdle

NextExtract == ExValidate \/ ExProbe \/ ExPrepare \/ ExCheckOutput \/ ExRun

SpecExtract == InitExtract /\ [][NextExtract]_vars

InitParse == SanIdle /\ DlIdle /\ AiIdle /\ CliIdle /\ ExIdle /\ PrInit /\ TgIdle

NextParse == ParseResponseCall

SpecParse == InitParse /\ [][NextParse]_vars

InitTags == SanIdle /\ DlIdle /\ AiIdle /\ CliIdle /\ ExIdle /\ PrIdle /\ TgInit

NextTags == ParseTagsCall

SpecTags == InitTags /\ [][NextTags]_vars

(***************************************************************************)
(* Claims about the downloader                                             *)
(***************************************************************************)

\* C8: when the request succeeds and the body has zero bytes, the call ends
\* with DownloadError and no file is left at output_path.
C8_EmptyBodyLeavesNoFile ==
    (dl_pc = "done" /\ bodyEmpty) => (dl_raised = "DownloadError" /\ ~fileExists)

C8_Witness == dl_pc = "done" /\ bodyEmpty /\ httpCalls = 1 /\ dl_raised = "DownloadError"

\* the request has succeeded, so the call has opened output_path for writing:
\* the body is empty or, the call having raised, part of it is still unread
OpenedByCall == bodyEmpty \/ bodyLeft > 0

\* C28: when download_clubhouse_video has raised DownloadError, no file that
\* the call has opened and written remains at output_path, a failure while
\* the body is streamed included.
C28_NoFileLeftOnDownloadError ==
    (dl_pc = "done" /\ dl_raised = "DownloadError" /\ OpenedByCall) => ~fileExists

\* C9: validate_url accepts exactly the URLs with scheme http or https and a
\* non-empty host, and every other URL is rejected with ValueError before any
\* mkdir or HTTP request.
C9_AcceptsExactlySchemeAndHost ==
    dl_pc \notin {"idle", "validate"} =>
        LET wellFormed == UrlScheme(url) \in {"http", "https"} /\ UrlHost(url) # ""
        IN  /\ validate_url(url) <=> wellFormed
            /\ ~wellFormed => (dl_raised = "ValueError" /\ mkdirCalls = 0 /\ httpCalls = 0)

\* C10: the name returned by sanitize_filename is non-empty, has at most
\* MaxFilenameLen characters, none of them invalid, and neither starts nor
\* ends with a space or a dot.
C10_SanitizedNameIsSafe ==
    san_pc = "done" =>
        /\ sanitized # <<>>
        /\ StrLen(sanitized) <= MaxFilenameLen
        /\ \A i \in DOMAIN sanitized : sanitized[i].c \notin InvalidChars
        /\ sanitized[1].c \notin StripChars
        /\ sanitized[Len(sanitized)].c \notin StripChars

\* the characters of a run-length encoded string
CharsOf(s) == {s[i].c : i \in DOMAIN s}

\* C11 (as stated): every input that is empty or made only of invalid
\* characters, spaces and dots is mapped to the default name "download".
C11_AllInvalidBecomesDownload ==
    (san_pc = "done" /\ CharsOf(filename) \subseteq (InvalidChars \cup StripChars)) =>
        sanitized = DefaultName

\* C11 (amended): every input that is empty or made only of spaces and dots
\* is mapped to the default name "download"; an input of such characters and
\* at least one invalid character is mapped to a name of underscores around
\* spaces and dots, never to the default name.
C11_EmptyAfterStripBecomesDownload ==
    san_pc = "done" =>
        /\ CharsOf(filename) \subseteq StripChars => sanitized = DefaultName
        /\ (CharsOf(filename) \subseteq (InvalidChars \cup StripChars)
                /\ CharsOf(filename) \cap InvalidChars # {}) =>
                    /\ sanitized # DefaultName
                    /\ CharsOf(sanitized) \subseteq ({"_"} \cup StripChars)
                    /\ "_" \in CharsOf(sanitized)

C11_Witness ==
    /\ san_pc = "done"
    /\ Len(filename) = MaxRuns
    /\ CharsOf(filename) = StripChars
    /\ sanitized = DefaultName

(***************************************************************************)
(* Claims about the audio extractor                                        *)
(***************************************************************************)

C13_BadInputFailsFirst ==
    (videoKind \in {"missing", "dir"} /\ ex_pc \notin {"idle", "validate"}) =>
        /\ ex_pc = "done"
        /\ ex_raised = "FileNotFoundError"
        /\ ex_result = "none"
        /\ probeCalls = 0
        /\ runCalls = 0
        /\ dirsCreated = 0
        /\ outputFile = outputBefore

C13_Witness ==
    /\ videoKind = "dir"
    /\ output_path = "given"
    /\ ~outDirExists
    /\ ex_pc = "done"
    /\ ex_raised = "FileNotFoundError"

\* C14: the extraction command is run at most once; the call returns the
\* output path only if that run exited with status 0 and the output file
\* exists afterwards; a run that exits with another status, leaves no output
\* file or times out ends the call with AudioExtractionError.
C14_ReturnsOnlyExistingOutput ==
    /\ runCalls <= 1
    /\ ex_pc = "done" =>
        /\ ex_result = "output_path" =>
                /\ ex_raised = "none"
                /\ runCalls = 1
                /\ runStatus = "zero"
                /\ outputFile # "absent"
        /\ (runCalls = 1 /\ (runStatus \in {"nonzero", "timeout"} \/ outputFile = "absent")) =>
                /\ ex_raised = "AudioExtractionError"
                /\ ex_result = "none"

C14_Witness ==
    /\ ex_pc = "done"
    /\ runCalls = 1
    /\ runStatus = "zero"
    /\ outputBefore = "old"
    /\ outputFile = "absent"
    /\ ex_kind = "no_output"

(***************************************************************************)
(* Claims about the transcriber and the summarizer                         *)
(***************************************************************************)
ExternalCalls == {"ffprobe", "ffmpeg", "upload", "generate", "delete"}

Chunked == op = "transcribe_audio_chunked"

\* the files transcribe_audio was called on, in call order
CallFiles ==
    LET starts == SelectSeq(trace, LAMBDA e : e.ev = "transcribe_audio")
    IN  [j \in DOMAIN starts |-> starts[j].k]

\* the offsets ffmpeg was asked to cut at, in call order
FfmpegOffsets ==
    LET cuts == SelectSeq(trace, LAMBDA e : e.ev = "ffmpeg")
    IN  [j \in DOMAIN cuts |-> cuts[j].k]

\* the calls of transcribe_audio that ended with an exception
RaisedFiles == {e.k : e \in {trace[j] : j \in {x \in DOMAIN trace : trace[x].ev = "raise"}}}

IsPrefix(a, b) == Len(a) <= Len(b) /\ a = SubSeq(b, 1, Len(a))

\* ceil(d / c) for c > 0
Ceil(d, c) == (d + c - 1) \div c

\* C1: with no credential in the argument or the environment, each operation
\* given otherwise valid inputs fails with the configuration error, and no
\* subprocess or API call has been made.
C1_NoCredentialFailsBeforeAnyCall ==
    LET validInputs ==
            IF op = "generate_descriptions"
            THEN transcript = "text" /\ episode_title = "text"
            ELSE audioKind = "file"
    IN  (op \in Ops /\ ~configure_gemini(api_key, envKey) /\ validInputs) =>
            /\ \A j \in DOMAIN trace : trace[j].ev \notin ExternalCalls
            /\ ai_pc # "returned"
            /\ ai_pc = "raised" => ai_kind = "config"

\* C5: for a chunk duration of at least one second, audio no longer than one
\* chunk is never split and is transcribed by one call on the original file;
\* longer audio is cut at 0, C, 2C, ... into ceil(D/C) segments, each
\* transcribed once, in order.
C5_SplitsIntoCeilSegments ==
    (Chunked /\ chunk_duration_minutes >= 1) =>
        LET n == Ceil(duration, ChunkSeconds)
            offsets == [j \in 1..n |-> (j - 1) * ChunkSeconds]
            files == [j \in 1..n |-> j - 1]
        IN  IF duration <= ChunkSeconds
            THEN /\ FfmpegOffsets = <<>>
                 /\ IsPrefix(CallFiles, <<-1>>)
                 /\ ai_pc = "returned" => CallFiles = <<-1>>
            ELSE /\ IsPrefix(FfmpegOffsets, offsets)
                 /\ IsPrefix(CallFiles, files)
                 /\ ai_pc \in {"loop", "returned"} => FfmpegOffsets = offsets
                 /\ ai_pc = "returned" => CallFiles = files

C5_Witness ==
    /\ Chunked
    /\ ai_pc = "returned"
    /\ chunk_duration_minutes = 1
    /\ duration = 2 * SecondsPerMinute + 1
    /\ Len(chunks) = 3

\* the entries of a joined text
RECURSIVE SplitOnSep(_)
SplitOnSep(t) ==
    IF \A j \in DOMAIN t : t[j].kind # "sep" THEN <<t>>
    ELSE LET first == CHOOSE j \in DOMAIN t :
                          t[j].kind = "sep" /\ \A x \in 1..(j - 1) : t[x].kind # "sep"
         IN  <<SubSeq(t, 1, first - 1)>> \o SplitOnSep(SubSeq(t, first + 1, Len(t)))

\* C6: once the audio is split, no failure of a chunk's transcription ends
\* the operation: every chunk is attempted and the result is one entry per
\* chunk, in chunk order, joined by one blank line; the entry of a failed
\* chunk k is its placeholder and that of any other chunk is its transcript.
C6_ChunkFailuresBecomePlaceholders ==
    (Chunked /\ Len(chunks) >= 1) =>
        /\ ai_pc = "raised" => CallFiles = <<>>
        /\ (ai_pc = "returned" /\ tempDir = "removed") =>
                LET entries == SplitOnSep(ai_result)
                IN  /\ CallFiles = [j \in 1..Len(chunks) |-> j - 1]
                    /\ Len(entries) = Len(chunks)
                    /\ \A j \in DOMAIN entries :
                            IF (j - 1) \in RaisedFiles
                            THEN entries[j] = <<Token("failed", j, 0)>>
                            ELSE \A x \in DOMAIN entries[j] :
                                    /\ entries[j][x].kind \in {"text", "marker", "nl"}
                                    /\ entries[j][x].kind = "text" => entries[j][x].k = j - 1

C6_Witness ==
    /\ Chunked
    /\ ai_pc = "returned"
    /\ Len(chunks) = 3
    /\ RaisedFiles = {0, 2}
    /\ Token("text", 1, 0) \in {ai_result[j] : j \in DOMAIN ai_result}

\* the chunk calls' starts and ends, and the sleeps
Pacing == SelectSeq(trace, LAMBDA e : e.ev \in {"transcribe_audio", "return", "raise", "sleep"})

\* C7: with a positive delay, one sleep of that delay lies between every two
\* consecutive chunk calls, after the earlier call has ended (failed or not)
\* and before the later one starts, and none follows the last chunk: n
\* chunks give n - 1 sleeps.
C7_OneSleepBetweenChunks ==
    (Chunked /\ delay_between_chunks > 0) =>
        /\ \A j \in DOMAIN Pacing :
            /\ (Pacing[j].ev = "transcribe_audio" /\ Pacing[j].k > 0) =>
                    /\ j > 2
                    /\ Pacing[j - 1].ev = "sleep"
                    /\ Pacing[j - 2].ev \in {"return", "raise"}
                    /\ Pacing[j - 2].k = Pacing[j].k - 1
            /\ Pacing[j].ev = "sleep" =>
                    /\ j > 1
                    /\ Pacing[j].k = delay_between_chunks
                    /\ Pacing[j - 1].ev \in {"return", "raise"}
                    /\ Pacing[j - 1].k < Len(chunks) - 1
        /\ (ai_pc = "returned" /\ Len(chunks) >= 1) =>
                Len(SelectSeq(trace, LAMBDA e : e.ev = "sleep")) = Len(chunks) - 1

C7_Witness ==
    /\ Chunked
    /\ ai_pc = "returned"
    /\ delay_between_chunks > 0
    /\ Len(chunks) = 3
    /\ 1 \in RaisedFiles
    /\ Len(SelectSeq(trace, LAMBDA e : e.ev = "sleep")) = 2

\* the lower-cased message of the exception the service raised contains word
Mentions(word) == \E phrase \in served.msg : Lower(phrase) = word

\* the call made on the original input got past validation and configuration
Configured == audioKind = "file" /\ configure_gemini(api_key, envKey)

Ended == ai_pc \in {"returned", "raised"}

TraceEvents == {trace[j].ev : j \in DOMAIN trace}

\* C24: the entry of a successfully transcribed chunk i (counted from 0)
\* starts with the marker of chunk i + 1 at minute i * chunk_duration_minutes,
\* followed by a newline, exactly when timestamps are requested and i > 0,
\* and holds no marker anywhere else.
C24_MarkerOnLaterChunksOnly ==
    (Chunked /\ ai_pc \in {"loop", "returned"}) =>
        \A j \in DOMAIN transcripts :
            (j - 1) \notin RaisedFiles =>
                LET entry == transcripts[j]
                    marked == entry # <<>> /\ entry[1].kind = "marker"
                IN  /\ marked <=> (include_timestamps /\ j > 1)
                    /\ marked =>
                            /\ entry[1] = Token("marker", j, (j - 1) * chunk_duration_minutes)
                            /\ entry[2] = Token("nl", 0, 0)
                    /\ \A x \in DOMAIN entry : x > 1 => entry[x].kind # "marker"

C24_Witness ==
    /\ Chunked
    /\ ai_pc = "returned"
    /\ include_timestamps
    /\ chunk_duration_minutes = 1
    /\ Len(transcripts) = 3
    /\ transcripts[1] = <<Token("text", 0, 0)>>
    /\ transcripts[3] = <<Token("marker", 3, 2), Token("nl", 0, 0), Token("text", 2, 0)>>

\* C25: once transcribe_audio_chunked has returned or raised, the temporary
\* directory it created no longer exists: after success, after a failure of
\* the split and after chunks whose transcription raised.
C25_TempDirRemovedOnExit ==
    (Chunked /\ Ended) => tempDir # "exists"

C25_Witness ==
    /\ Chunked
    /\ ai_pc = "raised"
    /\ ai_kind = "split"
    /\ Len(chunks) >= 1
    /\ tempDir = "removed"

\* C26: once the audio is split, the number of chunks announced before the
\* split, int(D / C) + 1, is the number of chunks split_audio has created.
C26_AnnouncedCountIsCreatedCount ==
    (Chunked /\ ai_pc \in {"loop", "returned"} /\ Len(chunks) >= 1) =>
        num_chunks = Len(chunks)

\* C27: transcribe_audio_chunked terminates for every chunk duration in
\* minutes, zero and negative ones included: every pass of split_audio's loop
\* that does not end the operation brings start_time nearer to the duration
\* at which the loop stops.
C27_EverySplitPassAdvances ==
    [][(Chunked /\ ai_pc = "split" /\ ai_pc' = "split") => start_time' > start_time]_vars

\* C15: once validation and configuration have passed, every exception
\* raised during upload or generation in transcribe_audio surfaces as a
\* TranscriptionError: the API-key error if its lower-cased message contains
\* "api key", else the content-blocked error if it contains "blocked" or
\* "safety", else the generic one; no other exception type escapes.
C15_ServiceErrorsClassified ==
    (op = "transcribe_audio" /\ Configured /\ Ended) =>
        /\ ai_raised \in {"none", "TranscriptionError"}
        /\ served.phase \in {"upload_fails", "generate_fails", "text_fails"} =>
                /\ ai_pc = "raised"
                /\ ai_raised = "TranscriptionError"
                /\ ai_kind = (IF Mentions("api key") THEN "apikey"
                              ELSE IF Mentions("blocked") \/ Mentions("safety") THEN "blocked"
                              ELSE "failed")

C15_Witness ==
    /\ op = "transcribe_audio"
    /\ ai_pc = "raised"
    /\ served.phase = "generate_fails"
    /\ served.msg = {"API key", "blocked"}
    /\ ai_kind = "apikey"

\* C16: transcribe_audio never returns an empty transcript: for every reply
\* of the model it returns a non-empty text or raises the empty-result error.
C16_NeverReturnsEmpty ==
    (op = "transcribe_audio" /\ ai_pc = "returned") => ai_result # <<>>

\* C17: a call of transcribe_audio that has uploaded the audio has attempted
\* to delete the uploaded copy by the time it returns or raises.
C17_UploadedCopyDeleted ==
    (op = "transcribe_audio" /\ Ended /\ served.phase \notin {"none", "upload_fails"}) =>
        "delete" \in TraceEvents

\* C18: generate_descriptions raises SummaryError for an empty or
\* whitespace-only transcript or title, with the credential not looked up and
\* no API call made; with valid inputs and no credential it raises the
\* configuration error, with no API call made.
C18_InputsCheckedBeforeCredential ==
    (op = "generate_descriptions" /\ ai_pc # "start") =>
        /\ (transcript \in {"", "blank"} \/ episode_title \in {"", "blank"}) =>
                /\ ai_pc = "raised"
                /\ ai_raised = "SummaryError"
                /\ ai_kind \in {"empty_transcript", "empty_title"}
                /\ trace = <<>>
                /\ served = NoService
        /\ (transcript = "text" /\ episode_title = "text" /\ ~configure_gemini(api_key, envKey)) =>
                /\ ai_pc = "raised"
                /\ ai_raised = "SummaryError"
                /\ ai_kind = "config"
                /\ TraceEvents \cap {"configure", "upload", "generate", "delete"} = {}
                /\ served = NoService

C18_Witness ==
    /\ op = "generate_descriptions"
    /\ ai_pc = "raised"
    /\ transcript = "text"
    /\ episode_title = "blank"
    /\ ~configure_gemini(api_key, envKey)
    /\ ai_kind = "empty_title"

(***************************************************************************)
(* Claims about the parsing of the reply.  A label starts line n when the  *)
(* line, after its leading whitespace, begins with the label in upper or   *)
(* in lower case.                                                          *)
(***************************************************************************)
LabelLines(j) ==
    {n \in DOMAIN response_text : response_text[n].head \in {Labels[j], LowerLabels[j]}}

AllLabelLines == UNION {LabelLines(j) : j \in DOMAIN Labels}

\* every label starts exactly one line, which has no leading whitespace and
\* has text after the label
WellFormedReply ==
    \A j \in DOMAIN Labels :
        /\ Cardinality(LabelLines(j)) = 1
        /\ \A n \in LabelLines(j) : ~response_text[n].indent /\ response_text[n].body = "text"

\* the lines after label line t that carry no label, up to the next label
\* line, without the blank ones that end them
FollowingLines(t) ==
    LET later == {n \in AllLabelLines : n > t}
        stop == IF later = {} THEN Len(response_text) + 1
                ELSE CHOOSE n \in later : \A x \in later : n <= x
        solid == {n \in (t + 1)..(stop - 1) : ~IsBlankLine(response_text[n])}
        last == IF solid = {} THEN t ELSE CHOOSE n \in solid : \A x \in solid : n >= x
    IN  [k \in 1..(last - t) |-> t + k]

\* the text after label j and the lines that follow it, joined and trimmed
ExpectedText(j) ==
    LET t == CHOOSE n \in LabelLines(j) : TRUE
        more == FollowingLines(t)
    IN  <<Piece(t, "content", "x")>>
            \o [k \in DOMAIN more |-> Piece(more[k], "line", LineText(response_text[more[k]]))]

\* the tags of the text after the TAGS label and of the lines that follow it
ExpectedTags ==
    LET t == CHOOSE n \in LabelLines(NumLabels) : TRUE
        more == SelectSeq(FollowingLines(t), LAMBDA n : ~IsBlankLine(response_text[n]))
    IN  <<Piece(t, "content", "x")>> \o [k \in DOMAIN more |-> Piece(more[k], "line", "x")]

TextFieldsAsExpected ==
    /\ DOMAIN parsed = Range(Fields)
    /\ \A j \in 1..(NumLabels - 1) : parsed[Fields[j]] = ExpectedText(j)

\* C19 (as stated): for a reply in which each of the five labels starts
\* exactly one line, with no leading whitespace, in any letter case and
\* followed by text, the result has exactly the five fields, each text field
\* is the text after its label and the lines that follow it joined and
\* trimmed, and tags is the tag list parsed from the TAGS buffer, whatever
\* the order of the labels.
C19_FieldsFromLabelledLines ==
    (pr_pc = "done" /\ WellFormedReply) =>
        /\ TextFieldsAsExpected
        /\ parsed["tags"] = ExpectedTags

\* C19 (amended): the same, with tags the tag list parsed from the TAGS
\* buffer when include_tags is true and the empty list when it is false.
C19_FieldsFromLabelledLinesTagsWanted ==
    (pr_pc = "done" /\ WellFormedReply) =>
        /\ TextFieldsAsExpected
        /\ parsed["tags"] = (IF include_tags THEN ExpectedTags ELSE <<>>)

C19_Witness ==
    /\ pr_pc = "done"
    /\ WellFormedReply
    /\ include_tags
    /\ Len(response_text) = NumLabels + 1
    /\ response_text[1].head = "tags:"
    /\ response_text[2] = Line(TRUE, "", "text")
    /\ parsed["tags"] = <<Piece(1, "content", "x"), Piece(2, "line", "x")>>
    /\ Len(parsed["youtube_description"]) = 1

\* the value a title field starts with
FallbackValue == IF fallback_title = "" THEN <<>> ELSE <<Piece(0, "fallback", "x")>>

\* C20: a field whose label starts no line keeps its default (the fallback
\* title for a title field, the empty string for a description field, the
\* empty list for tags), and no line before the first line that a label
\* starts is part of any field.
C20_MissingFieldsKeepDefaults ==
    pr_pc = "done" =>
        /\ \A j \in DOMAIN Labels :
                LabelLines(j) = {} =>
                    parsed[Fields[j]] =
                        (IF Fields[j] \in {"youtube_title", "spotify_title"} THEN FallbackValue ELSE <<>>)
        /\ \A f \in Range(Fields) : \A k \in DOMAIN parsed[f] :
                parsed[f][k].part # "fallback" =>
                    \E n \in AllLabelLines : n <= parsed[f][k].n

C20_Witness ==
    /\ pr_pc = "done"
    /\ fallback_title = "fallback"
    /\ Len(response_text) = 2
    /\ response_text[1] = Line(FALSE, "", "text")
    /\ response_text[2] = Line(FALSE, "YOUTUBE_DESCRIPTION:", "text")
    /\ parsed["youtube_title"] = FallbackValue
    /\ parsed["youtube_description"] = <<Piece(2, "content", "x")>>

\* the pieces of the result that come from the text after a label
LabelPieces(f) == {k \in DOMAIN parsed[f] : parsed[f][k].part \in {"content", "mangled"}}

\* C21: a line is recognized as starting a field only if it begins, in
\* either letter case, with one of the five labels, and the buffer of the
\* field then starts with exactly the trimmed text that follows the label on
\* that line: whatever a field holds of a label line is the text after the
\* label of a line that begins with the field's own label, and comes first.
C21_BufferStartsWithTextAfterLabel ==
    pr_pc = "done" =>
        \A j \in DOMAIN Labels : \A k \in LabelPieces(Fields[j]) :
            LET piece == parsed[Fields[j]][k]
            IN  /\ k = 1
                /\ piece.n \in LabelLines(j)
                /\ ~response_text[piece.n].indent
                /\ piece.part = "content"

\* C29: for a non-empty fallback title, the youtube_title and the
\* spotify_title returned are non-empty.
C29_TitlesNeverEmpty ==
    (pr_pc = "done" /\ fallback_title # "") =>
        /\ parsed["youtube_title"] # <<>>
        /\ parsed["spotify_title"] # <<>>

\* C22: every tag returned by _parse_tags is non-empty, has no whitespace at
\* its start or end and has no "#" at its start or end.
C22_TagsAreClean ==
    tg_pc = "done" =>
        \A j \in DOMAIN tag_list :
            /\ tag_list[j] # <<>>
            /\ tag_list[j][1] \notin {" ", "\n", "#"}
            /\ tag_list[j][Len(tag_list[j])] \notin {" ", "\n", "#"}

(***************************************************************************)
(* Claims about the commands                                               *)
(***************************************************************************)
StageOrder == <<"download", "extract", "transcribe", "summarize">>

StageNames == [j \in DOMAIN stages |-> stages[j].stage]

StagePrefix ==
    [j \in 1..4 |-> <<"Download error", "Extraction error", "Transcription error", "Summary error">>[j]]

\* C2: process calls the stage functions at most once each, in the order
\* download, extract, transcribe, summarize, each only after the one before
\* it has returned, and calls none after one has failed.
C2_StagesInOrderUntilFailure ==
    cmd = "process" =>
        /\ IsPrefix(StageNames, StageOrder)
        /\ \A j \in DOMAIN stages : j < Len(stages) => stages[j].outcome = "ok"

C2_Witness ==
    /\ cmd = "process"
    /\ cli_pc = "exited"
    /\ Len(stages) = 3
    /\ stages[3].outcome = "TranscriptionError"

\* C3: process exits with status 0 only if all four stages succeeded, and
\* when a step raises an exception that one of its except clauses catches it
\* exits with status 1 and prints the prefix of the step that raised it.
C3_DiagnosticNamesRaisingStage ==
    (cmd = "process" /\ cli_pc = "exited") =>
        /\ exit_code = 0 =>
                /\ StageNames = StageOrder
                /\ \A j \in DOMAIN stages : stages[j].outcome = "ok"
        /\ (raisedIn \in 1..4 /\ ProcessDiagnostic(raisedExc) # "traceback") =>
                /\ exit_code = 1
                /\ diagnostic = StagePrefix[raisedIn]

\* C4: with GEMINI_API_KEY unset or empty, transcribe, summarize and process
\* exit with status 1 having called no stage function and written no file.
C4_NoKeyExitsBeforeAnyStage ==
    (cmd \in Commands /\ environKey \in {"unset", ""} /\ cli_pc # "start") =>
        /\ cli_pc = "exited"
        /\ exit_code = 1
        /\ stages = <<>>
        /\ written = {}

C4_Witness ==
    /\ cmd = "process"
    /\ environKey = ""
    /\ cli_pc = "exited"
    /\ exit_code = 1
    /\ diagnostic = "Error: GEMINI_API_KEY"

\* C23: a configuration that omits the local section or its output_dir key
\* behaves as one that has them: no command ends on the KeyError raised by
\* the lookup of the omitted section or key.
C23_OmittedOptionTakesDefault ==
    (cmd \in Commands /\ configLocal # "full") => raisedExc # "KeyError"

\* the files on disk when the stage function called after `done` others starts
OutputsOf(done) ==
    (IF done >= 1 THEN {"video"} ELSE {}) \cup
    (IF done >= 2 THEN {"audio"} ELSE {}) \cup
    (IF done >= 3 THEN {"transcript"} ELSE {})

====
